---- MODULE Spec2Model ----
(***************************************************************************)
(* The document annotation engine of the Textile Exchange style checker:   *)
(* analyze_doc of src/checker/run.py (variant "run") and of                *)
(* src/textile_app.py (variant "app").  A paragraph is a sequence of runs, *)
(* a run is a text (a sequence of one-character strings) with one font     *)
(* colour.  Offsets are 0-based as in the Python code; char_index is       *)
(* start + 1.                                                              *)
(***************************************************************************)
EXTENDS Integers, Sequences, FiniteSets, TLC

VARIABLES
    variant,          \* "run" (checker/run.py) or "app" (textile_app.py)
    rules,            \* the flattened rule list the engine iterates
    doc,              \* the document: paragraphs of runs, mutated in place
    orig,             \* the document as loaded (never written)
    pc,               \* position of analyze_doc inside its loops
    para_idx,         \* 1-based index of the current paragraph
    rule_idx,         \* index of the next rule of the rule loop
    applied_indices,  \* offsets claimed in the current paragraph
    reported,         \* (pattern, para_idx) pairs already reported
    results,          \* the issue list
    claims,           \* log of the highlight loops: one entry per claimed range,
                      \* with the colour written and the rule or check that wrote it
    m_text,           \* rule matcher alone: the paragraph text searched
    m_pattern,        \* rule matcher alone: the literal pattern of the rule
    m_found,          \* rule matcher alone: the matches re.finditer yielded
    m_pc,             \* rule matcher alone: "ready", "done" or "idle"
    rules_file,       \* rule editor: rules.json, whether it exists and its content
    edit_rule,        \* rule editor: st.session_state.edit_rule, <<>> when absent
    edit_target,      \* rule editor: the id of the rule Edit was pressed on
    next_id,          \* rule editor: the id the next added rule gets
    last_op           \* rule editor: the interaction the last script run handled

engineVars == <<variant, rules, doc, orig, pc, para_idx, rule_idx, applied_indices,
                reported, results, claims>>
matchVars == <<m_text, m_pattern, m_found, m_pc>>
editorVars == <<rules_file, edit_rule, edit_target, next_id, last_op>>

vars == <<variant, rules, doc, orig, pc, para_idx, rule_idx, applied_indices,
          reported, results, claims, m_text, m_pattern, m_found, m_pc,
          rules_file, edit_rule, edit_target, next_id, last_op>>

\* the rule matcher and the rule editor when the specification is not about them
MatchIdle ==
    /\ m_text = <<>>
    /\ m_pattern = <<>>
    /\ m_found = <<>>
    /\ m_pc = "idle"

\* no rules.json on disk
MissingFile == [exists |-> FALSE, data |-> [k \in {} |-> <<>>]]

EditorIdle ==
    /\ rules_file = MissingFile
    /\ edit_rule = <<>>
    /\ edit_target = 0
    /\ next_id = 0
    /\ last_op = "idle"

----------------------------------------------------------------------------
(* Characters.                                                             *)

UpperChars == <<"A", "B", "C", "E", "F", "I", "Q", "R", "S", "T", "Z">>
LowerChars == <<"a", "b", "c", "e", "f", "i", "q", "r", "s", "t", "z">>
DigitChars == {"0", "1", "2", "3", "4", "5", "6", "7", "8", "9"}
SpaceChars == {" "}

IsUpper(c) == \E k \in 1..Len(UpperChars) : UpperChars[k] = c
IsLower(c) == \E k \in 1..Len(LowerChars) : LowerChars[k] = c
\* [A-Za-z]
IsAlpha(c) == IsUpper(c) \/ IsLower(c)
\* \w of the re module: letters, digits and the underscore
IsWordChar(c) == IsAlpha(c) \/ c \in DigitChars \/ c = "_"

\* str.lower() on one character
LowerChar(c) ==
    IF IsUpper(c)
    THEN LowerChars[CHOOSE k \in 1..Len(UpperChars) : UpperChars[k] = c]
    ELSE c

\* str.lower()
Lower(s) == [k \in 1..Len(s) |-> LowerChar(s[k])]

\* str.isupper() of a word: no lowercase letter and at least one uppercase one
StrIsUpper(s) ==
    /\ \E k \in 1..Len(s) : IsUpper(s[k])
    /\ \A k \in 1..Len(s) : ~IsLower(s[k])

\* str.isalpha()
StrIsAlpha(s) == Len(s) > 0 /\ \A k \in 1..Len(s) : IsAlpha(s[k])

\* text.strip() is empty
IsBlank(s) == \A k \in 1..Len(s) : s[k] \in SpaceChars

\* text[start:end], 0-based offsets
Slice(s, start, end) == [k \in 1..(end - start) |-> s[start + k]]

\* range(start, end)
Range(start, end) == start..(end - 1)

----------------------------------------------------------------------------
(* Regular expressions of the engine, on a text of characters.             *)

\* \b at offset i (0..Len): exactly one side is a word character
WordBoundary(text, i) ==
    LET before == i > 0 /\ IsWordChar(text[i])
        after  == i < Len(text) /\ IsWordChar(text[i + 1])
    IN before # after

\* length of the match of \b<escaped pattern>\b with re.IGNORECASE at offset i,
\* or -1 when it does not match there
RuleMatchLenAt(text, pattern, i) ==
    LET n == Len(pattern)
    IN IF /\ i + n <= Len(text)
          /\ WordBoundary(text, i)
          /\ \A k \in 1..n : LowerChar(text[i + k]) = LowerChar(pattern[k])
          /\ WordBoundary(text, i + n)
       THEN n
       ELSE -1

\* number of consecutive characters of the class from offset i on
RECURSIVE ClassRun(_, _, _)
ClassRun(text, cls, i) ==
    IF i < Len(text) /\ text[i + 1] \in cls
    THEN 1 + ClassRun(text, cls, i + 1)
    ELSE 0

\* length of the match of \b[cls]{min,}\b at offset i (greedy, backtracking to
\* the longest length that ends on a word boundary), or -1
ClassMatchLenAt(text, cls, min, i) ==
    IF ~WordBoundary(text, i)
    THEN -1
    ELSE LET run  == ClassRun(text, cls, i)
             ends == {k \in min..run : WordBoundary(text, i + k)}
         IN IF ends = {} THEN -1
            ELSE CHOOSE k \in ends : \A j \in ends : j <= k

\* re.finditer for the rule pattern: the non-overlapping matches, left to right
RECURSIVE RuleMatchesFrom(_, _, _)
RuleMatchesFrom(text, pattern, i) ==
    IF i > Len(text)
    THEN <<>>
    ELSE LET n == RuleMatchLenAt(text, pattern, i)
         IN IF n < 0
            THEN RuleMatchesFrom(text, pattern, i + 1)
            ELSE <<[start |-> i, end |-> i + n]>>
                 \o RuleMatchesFrom(text, pattern, IF n = 0 THEN i + 1 ELSE i + n)

RuleMatches(text, pattern) == RuleMatchesFrom(text, pattern, 0)

\* re.finditer for \b[cls]{min,}\b
RECURSIVE ClassMatchesFrom(_, _, _, _)
ClassMatchesFrom(text, cls, min, i) ==
    IF i > Len(text)
    THEN <<>>
    ELSE LET n == ClassMatchLenAt(text, cls, min, i)
         IN IF n < 0
            THEN ClassMatchesFrom(text, cls, min, i + 1)
            ELSE <<[start |-> i, end |-> i + n]>>
                 \o ClassMatchesFrom(text, cls, min, i + n)

AlphaClass == {UpperChars[k] : k \in 1..Len(UpperChars)}
                  \cup {LowerChars[k] : k \in 1..Len(LowerChars)}
CapitalClass == {UpperChars[k] : k \in 1..Len(UpperChars)}
WordClass == AlphaClass \cup {"'"}

\* re.findall(r"\b[A-Za-z]{2,}\b", text)
AlphaWords(text) == ClassMatchesFrom(text, AlphaClass, 2, 0)
\* re.finditer(r"\b[A-Z]{2,}\b", text)
CapsRuns(text) == ClassMatchesFrom(text, CapitalClass, 2, 0)
\* re.finditer(r"\b[A-Z]{3,}\b", text)
CapsWords(text) == ClassMatchesFrom(text, CapitalClass, 3, 0)
\* re.finditer(r"\b[A-Za-z']+\b", text)
SpellWords(text) == ClassMatchesFrom(text, WordClass, 1, 0)

----------------------------------------------------------------------------
(* Runs, colours and the formatting write.                                 *)

\* para.text: the run texts concatenated in order
RECURSIVE ParaTextFrom(_, _)
ParaTextFrom(runs, j) ==
    IF j > Len(runs) THEN <<>> ELSE runs[j].text \o ParaTextFrom(runs, j + 1)

ParaText(runs) == ParaTextFrom(runs, 1)

\* offset of the first character of run j in the paragraph text
RECURSIVE RunStart(_, _)
RunStart(runs, j) ==
    IF j = 1 THEN 0 ELSE RunStart(runs, j - 1) + Len(runs[j - 1].text)

\* char_to_run: offset -> (index of) the run object that holds the character
CharToRun(runs) ==
    [i \in 0..(Len(ParaText(runs)) - 1) |->
        CHOOSE j \in 1..Len(runs) :
            RunStart(runs, j) <= i /\ i < RunStart(runs, j) + Len(runs[j].text)]

\* a formatting write that cuts the paragraph into one run per character, to
\* colour the characters of the range alone
ColorRangeSplitting(runs, start, end, color) ==
    LET text == ParaText(runs)
        c2r  == CharToRun(runs)
    IN [k \in 1..Len(text) |->
           [text  |-> <<text[k]>>,
            color |-> IF k - 1 \in Range(start, end)
                      THEN color ELSE runs[c2r[k - 1]].color]]

\* for i in range(start, end): char_to_run[i].font.color.rgb = color
\* The font colour belongs to the run object, so the write reaches the whole
\* run of every offset of the range.
ColorRange(runs, start, end, color) ==
    LET c2r  == CharToRun(runs)
        hit  == {c2r[i] : i \in Range(start, end)}
    IN [j \in 1..Len(runs) |->
           IF j \in hit THEN [runs[j] EXCEPT !.color = color] ELSE runs[j]]

\* the font colour shown at offset i of a paragraph
ColorAt(runs, i) == runs[CharToRun(runs)[i]].color

\* SEVERITY_COLOR_RGB.get(key, RGBColor(255,0,0)) of the two engines.  The table
\* of textile_app.py is keyed by "style guide rule" / "style guide caution".
SeverityColor(v, key) ==
    IF v = "run"
    THEN CASE key = "advice"  -> "yellow"
           [] key = "warning" -> "orange"
           [] key = "error"   -> "red"
           [] OTHER           -> "red"
    ELSE CASE key = "style guide rule"    -> "red"
           [] key = "style guide caution" -> "orange"
           [] OTHER                       -> "red"

\* the category the built-in checks report and colour with
CautionKey(v) == IF v = "run" THEN "warning" ELSE "style guide caution"
ErrorKey(v) == IF v = "run" THEN "error" ELSE "style guide rule"

\* an overlap test that looks at the first offset of the range only
OverlapsAtStart(applied, start, end) == start < end /\ start \in applied

\* any(i in applied_indices for i in range(start, end))
Overlaps(applied, start, end) == \E i \in Range(start, end) : i \in applied

----------------------------------------------------------------------------
(* Fixed tables.                                                           *)

\* BRITISH_TO_AMERICAN (keys); the model's texts use the key "fibre"
BritishKeys == { <<"f", "i", "b", "r", "e">> }

\* word_frequency(word, "en") < 1e-6 of the wordfreq library: the words of the
\* model's texts that the frequency table holds at 1e-6 or above
FrequentWords ==
    { <<"a", "b">>, <<"a", "b", "c">>, <<"f", "i", "b", "r", "e">> }

IsRare(word) == word \notin FrequentWords

AllCapsSentence ==
    <<"A", "L", "L", " ", "C", "A", "P", "S", " ",
      "s", "e", "n", "t", "e", "n", "c", "e">>

----------------------------------------------------------------------------
(* The body of analyze_doc for one paragraph.  st is the paragraph's       *)
(* working state: its runs, applied_indices, reported, and the issue list  *)
(* and colouring log built so far; ctx holds the paragraph text, its index,*)
(* the engine variant and the index of the rule at work (0 for the         *)
(* built-in checks).                                                       *)

\* the 0.6 of "len(caps_words) / len(words) >= 0.6", in percent
CapsThresholdPercent == 60

\* one issue record; phase stands for the message text of the check that
\* emitted it, category for "severity" (run) or "rule_category" (app)
Issue(match, category, pidx, start, phase, all_caps) ==
    [match |-> match, category |-> category, paragraph_index |-> pidx,
     char_index |-> start + 1, phase |-> phase, all_caps |-> all_caps]

\* the highlight loop: colour every offset of the range and claim it
Highlight(st, ctx, start, end, color, phase) ==
    [st EXCEPT
        !.runs    = ColorRange(st.runs, start, end, color),
        !.applied = st.applied \cup Range(start, end),
        !.claims  = Append(st.claims,
                        [para |-> ctx.pidx, start |-> start, end |-> end,
                         color |-> color, phase |-> phase, by |-> ctx.by])]

\* "if not rule['pattern']: continue" is in checker/run.py only
SkipsRule(v, rule) == v = "run" /\ rule.pattern = <<>>

\* a loop body that lacks the "in reported" test: every unclaimed occurrence
\* is highlighted and reported
RuleMatchStepNoDedup(st, ctx, rule, m) ==
    IF Overlaps(st.applied, m.start, m.end)
    THEN st
    ELSE LET lit == Highlight(st, ctx, m.start, m.end,
                              SeverityColor(ctx.v, rule.cat), "rule")
         IN [lit EXCEPT
                !.results  = Append(lit.results,
                                 Issue(Slice(ctx.text, m.start, m.end), rule.cat,
                                       ctx.pidx, m.start, "rule", FALSE)),
                !.reported = lit.reported \cup {<<rule.pattern, ctx.pidx>>}]

\* the body of the finditer loop of the rule phase for one match m
RuleMatchStep(st, ctx, rule, m) ==
    IF Overlaps(st.applied, m.start, m.end)
    THEN st
    ELSE IF <<rule.pattern, ctx.pidx>> \in st.reported
    THEN st
    ELSE LET lit == Highlight(st, ctx, m.start, m.end,
                              SeverityColor(ctx.v, rule.cat), "rule")
         IN [lit EXCEPT
                !.results  = Append(lit.results,
                                 Issue(Slice(ctx.text, m.start, m.end), rule.cat,
                                       ctx.pidx, m.start, "rule", FALSE)),
                !.reported = lit.reported \cup {<<rule.pattern, ctx.pidx>>}]

RECURSIVE RuleLoop(_, _, _, _, _)
RuleLoop(st, ctx, rule, ms, k) ==
    IF k > Len(ms)
    THEN st
    ELSE RuleLoop(RuleMatchStep(st, ctx, rule, ms[k]), ctx, rule, ms, k + 1)

\* one iteration of "for rule in rules"
RulePass(st, ctx, rule) ==
    IF SkipsRule(ctx.v, rule)
    THEN st
    ELSE RuleLoop(st, ctx, rule, RuleMatches(ctx.text, rule.pattern), 1)

\* colouring loop of the ALL CAPS sentence branch: no issue per token
RECURSIVE CapsSentenceLoop(_, _, _, _)
CapsSentenceLoop(st, ctx, ms, k) ==
    IF k > Len(ms)
    THEN st
    ELSE LET m == ms[k]
             nxt == IF Overlaps(st.applied, m.start, m.end)
                    THEN st
                    ELSE Highlight(st, ctx, m.start, m.end,
                                   SeverityColor(ctx.v, CautionKey(ctx.v)), "caps")
         IN CapsSentenceLoop(nxt, ctx, ms, k + 1)

\* loop of the "Single ALL CAPS words" branch: one issue per unclaimed token
RECURSIVE CapsWordLoop(_, _, _, _)
CapsWordLoop(st, ctx, ms, k) ==
    IF k > Len(ms)
    THEN st
    ELSE LET m == ms[k]
             lit == Highlight(st, ctx, m.start, m.end,
                              SeverityColor(ctx.v, CautionKey(ctx.v)), "caps")
             nxt == IF Overlaps(st.applied, m.start, m.end)
                    THEN st
                    ELSE [lit EXCEPT !.results =
                             Append(lit.results,
                                    Issue(Slice(ctx.text, m.start, m.end),
                                          CautionKey(ctx.v), ctx.pidx, m.start,
                                          "caps", FALSE))]
         IN CapsWordLoop(nxt, ctx, ms, k + 1)

\* words and len(caps_words) / len(words) >= 0.6
IsCapsSentence(text) ==
    LET words == AlphaWords(text)
        caps  == {k \in 1..Len(words) :
                     StrIsUpper(Slice(text, words[k].start, words[k].end))}
    IN /\ Len(words) > 0
       /\ 100 * Cardinality(caps) >= CapsThresholdPercent * Len(words)

\* the synthetic issue of the sentence branch
CapsSentenceIssue(st, ctx) ==
    [st EXCEPT !.results =
        Append(st.results,
               Issue(AllCapsSentence, CautionKey(ctx.v), ctx.pidx, 0, "caps",
                     ctx.v = "run"))]

\* "FULL CAPS SENTENCE CHECK".  checker/run.py guards the branch by the absence
\* of an all_caps issue of this paragraph and has the per-word else branch;
\* textile_app.py has neither.
CapsPass(st, ctx) ==
    IF IsCapsSentence(ctx.text)
    THEN IF ctx.v = "run" /\ \E k \in 1..Len(st.results) :
                                 /\ st.results[k].all_caps
                                 /\ st.results[k].paragraph_index = ctx.pidx
         THEN st
         ELSE CapsSentenceIssue(
                  CapsSentenceLoop(st, ctx, CapsRuns(ctx.text), 1), ctx)
    ELSE IF ctx.v = "run"
         THEN CapsWordLoop(st, ctx, CapsWords(ctx.text), 1)
         ELSE st

\* the "match" of a spelling issue: m.group() in checker/run.py,
\* m.group().lower() in textile_app.py
SpellingMatchText(v, word) == IF v = "run" THEN word ELSE Lower(word)

\* "BRITISH SPELLING CHECK"
RECURSIVE BritishLoop(_, _, _, _)
BritishLoop(st, ctx, ms, k) ==
    IF k > Len(ms)
    THEN st
    ELSE LET m == ms[k]
             word == Slice(ctx.text, m.start, m.end)
             lit == Highlight(st, ctx, m.start, m.end,
                              SeverityColor(ctx.v, CautionKey(ctx.v)), "british")
             nxt == IF /\ Lower(word) \in BritishKeys
                       /\ ~Overlaps(st.applied, m.start, m.end)
                    THEN [lit EXCEPT !.results =
                             Append(lit.results,
                                    Issue(SpellingMatchText(ctx.v, word),
                                          CautionKey(ctx.v), ctx.pidx, m.start,
                                          "british", FALSE))]
                    ELSE st
         IN BritishLoop(nxt, ctx, ms, k + 1)

BritishPass(st, ctx) == BritishLoop(st, ctx, SpellWords(ctx.text), 1)

\* a dictionary loop that puts each new issue at the head of the list
RECURSIVE DictLoopPrepending(_, _, _, _)
DictLoopPrepending(st, ctx, ms, k) ==
    IF k > Len(ms)
    THEN st
    ELSE LET m == ms[k]
             word == Slice(ctx.text, m.start, m.end)
             lit == Highlight(st, ctx, m.start, m.end,
                              SeverityColor(ctx.v, ErrorKey(ctx.v)), "dict")
             nxt == IF Overlaps(st.applied, m.start, m.end)
                    THEN st
                    ELSE IF ~StrIsAlpha(word)
                    THEN st
                    ELSE IF IsRare(Lower(word))
                    THEN [lit EXCEPT !.results =
                             <<Issue(SpellingMatchText(ctx.v, word),
                                     ErrorKey(ctx.v), ctx.pidx, m.start,
                                     "dict", FALSE)>> \o lit.results]
                    ELSE st
         IN DictLoopPrepending(nxt, ctx, ms, k + 1)

\* "AMERICAN ENGLISH SPELLCHECK (wordfreq)"
RECURSIVE DictLoop(_, _, _, _)
DictLoop(st, ctx, ms, k) ==
    IF k > Len(ms)
    THEN st
    ELSE LET m == ms[k]
             word == Slice(ctx.text, m.start, m.end)
             lit == Highlight(st, ctx, m.start, m.end,
                              SeverityColor(ctx.v, ErrorKey(ctx.v)), "dict")
             nxt == IF Overlaps(st.applied, m.start, m.end)
                    THEN st
                    ELSE IF ~StrIsAlpha(word)
                    THEN st
                    ELSE IF IsRare(Lower(word))
                    THEN [lit EXCEPT !.results =
                             Append(lit.results,
                                    Issue(SpellingMatchText(ctx.v, word),
                                          ErrorKey(ctx.v), ctx.pidx, m.start,
                                          "dict", FALSE))]
                    ELSE st
         IN DictLoop(nxt, ctx, ms, k + 1)

DictPass(st, ctx) == DictLoop(st, ctx, SpellWords(ctx.text), 1)

----------------------------------------------------------------------------
(* Inputs: documents and rule lists.                                       *)

MaxWords == 3
MaxRules == 2
RunLen == 4

Fibre == <<"f", "i", "b", "r", "e">>
FibreCapitalised == <<"F", "i", "b", "r", "e">>
Zq == <<"z", "q">>
Abc == <<"A", "B", "C">>
Ab == <<"A", "B">>

Lexicon == {FibreCapitalised, Zq, Abc, Ab}

\* the words joined by single spaces
RECURSIVE JoinWords(_, _)
JoinWords(ws, k) ==
    IF k = Len(ws) THEN ws[k] ELSE ws[k] \o <<" ">> \o JoinWords(ws, k + 1)

Texts ==
    {JoinWords(ws, 1) : ws \in UNION {[1..n -> Lexicon] : n \in 1..MaxWords}}
        \cup {<<" ">>}

\* a paragraph of the text cut into runs of n characters (the last one
\* shorter); the runs carry alternating font colours when loaded
RECURSIVE SplitRuns(_, _, _)
SplitRuns(text, n, j) ==
    IF Len(text) <= n
    THEN <<[text |-> text, color |-> IF j % 2 = 1 THEN "auto" ELSE "blue"]>>
    ELSE <<[text |-> SubSeq(text, 1, n),
            color |-> IF j % 2 = 1 THEN "auto" ELSE "blue"]>>
         \o SplitRuns(SubSeq(text, n + 1, Len(text)), n, j + 1)

Paragraphs ==
    {SplitRuns(t, n, 1) : t \in Texts, n \in {RunLen}}
        \cup {SplitRuns(t, Len(t), 1) : t \in Texts}

\* paragraphs of one run holding one word, or blank
ShortParagraphs ==
    {SplitRuns(t, Len(t), 1) : t \in Lexicon \cup {<<" ">>}}

\* documents of one paragraph, and of two short paragraphs
Docs == {<<p>> : p \in Paragraphs} \cup [1..2 -> ShortParagraphs]

FibreZq == Fibre \o <<" ">> \o Zq

\* the rule records load_rules of checker/run.py builds: pattern and severity
RunRules ==
    { [pattern |-> Fibre,   cat |-> "error"],
      [pattern |-> Zq,      cat |-> "warning"],
      [pattern |-> FibreZq, cat |-> "error"],
      [pattern |-> <<>>,    cat |-> "warning"] }

\* the rule records analyze_doc of textile_app.py builds: pattern and rule_type
AppRules ==
    { [pattern |-> Fibre,   cat |-> "style_guide_rule"],
      [pattern |-> Zq,      cat |-> "style_guide_caution"],
      [pattern |-> FibreZq, cat |-> "style_guide_rule"],
      [pattern |-> <<>>,    cat |-> "style_guide_caution"] }

\* all_rules lists the style_guide_rule items before the style_guide_caution ones
SectionOrdered(rs) ==
    \A i, j \in 1..Len(rs) :
        i < j => ~(rs[i].cat = "style_guide_caution" /\ rs[j].cat = "style_guide_rule")

RuleLists(v) ==
    IF v = "run"
    THEN UNION {[1..n -> RunRules] : n \in 0..MaxRules}
    ELSE {rs \in UNION {[1..n -> AppRules] : n \in 0..MaxRules} : SectionOrdered(rs)}

----------------------------------------------------------------------------
(* analyze_doc as a state machine.                                         *)

Init ==
    /\ variant \in {"run", "app"}
    /\ rules \in RuleLists(variant)
    /\ doc \in Docs
    /\ orig = doc
    /\ pc = "para"
    /\ para_idx = 1
    /\ rule_idx = 1
    /\ applied_indices = {}
    /\ reported = {}
    /\ results = <<>>
    /\ claims = <<>>
    /\ MatchIdle
    /\ EditorIdle

Ctx(by) ==
    [text |-> ParaText(doc[para_idx]), pidx |-> para_idx, v |-> variant, by |-> by]

St == [runs |-> doc[para_idx], applied |-> applied_indices,
       reported |-> reported, results |-> results, claims |-> claims]

\* write the working state of a pass back
Commit(st) ==
    /\ doc' = [doc EXCEPT ![para_idx] = st.runs]
    /\ applied_indices' = st.applied
    /\ reported' = st.reported
    /\ results' = st.results
    /\ claims' = st.claims

\* "if not text.strip(): continue"
SkipBlank ==
    /\ pc = "para"
    /\ para_idx <= Len(doc)
    /\ IsBlank(ParaText(doc[para_idx]))
    /\ para_idx' = para_idx + 1
    /\ UNCHANGED <<variant, rules, doc, orig, pc, rule_idx, applied_indices,
                   reported, results, claims>>
    /\ UNCHANGED <<matchVars, editorVars>>

\* a non-blank paragraph: fresh applied_indices and reported
BeginParagraph ==
    /\ pc = "para"
    /\ para_idx <= Len(doc)
    /\ ~IsBlank(ParaText(doc[para_idx]))
    /\ applied_indices' = {}
    /\ reported' = {}
    /\ rule_idx' = 1
    /\ pc' = IF Len(rules) = 0 THEN "caps" ELSE "rules"
    /\ UNCHANGED <<variant, rules, doc, orig, para_idx, results, claims>>
    /\ UNCHANGED <<matchVars, editorVars>>

\* one iteration of the rule loop
ApplyRule ==
    /\ pc = "rules"
    /\ rule_idx <= Len(rules)
    /\ Commit(RulePass(St, Ctx(rule_idx), rules[rule_idx]))
    /\ rule_idx' = rule_idx + 1
    /\ pc' = IF rule_idx = Len(rules) THEN "caps" ELSE "rules"
    /\ UNCHANGED <<variant, rules, orig, para_idx>>
    /\ UNCHANGED <<matchVars, editorVars>>

CapsCheck ==
    /\ pc = "caps"
    /\ Commit(CapsPass(St, Ctx(0)))
    /\ pc' = "british"
    /\ UNCHANGED <<variant, rules, orig, para_idx, rule_idx>>
    /\ UNCHANGED <<matchVars, editorVars>>

BritishCheck ==
    /\ pc = "british"
    /\ Commit(BritishPass(St, Ctx(0)))
    /\ pc' = "dict"
    /\ UNCHANGED <<variant, rules, orig, para_idx, rule_idx>>
    /\ UNCHANGED <<matchVars, editorVars>>

\* the last check of the paragraph; the loop moves to the next paragraph
DictCheck ==
    /\ pc = "dict"
    /\ Commit(DictPass(St, Ctx(0)))
    /\ pc' = "para"
    /\ para_idx' = para_idx + 1
    /\ UNCHANGED <<variant, rules, orig, rule_idx>>
    /\ UNCHANGED <<matchVars, editorVars>>

\* "return doc, results"
Return ==
    /\ pc = "para"
    /\ para_idx > Len(doc)
    /\ pc' = "done"
    /\ UNCHANGED <<variant, rules, doc, orig, para_idx, rule_idx, applied_indices,
                   reported, results, claims>>
    /\ UNCHANGED <<matchVars, editorVars>>

Next ==
    \/ SkipBlank
    \/ BeginParagraph
    \/ ApplyRule
    \/ CapsCheck
    \/ BritishCheck
    \/ DictCheck
    \/ Return

Spec == Init /\ [][Next]_vars

----------------------------------------------------------------------------
(* Properties.                                                             *)

ClaimRange(c) == Range(c.start, c.end)

\* the entries of the colouring log of paragraph p
ClaimsOf(p) == {k \in 1..Len(claims) : claims[k].para = p}

\* the issues of paragraph p emitted by the given check, in order of emission
IssuesOf(p, phase) ==
    SelectSeq(results, LAMBDA r : r.paragraph_index = p /\ r.phase = phase)

\* the log entries of paragraph p written by the given check, in order
LogOf(p, phase) ==
    SelectSeq(claims, LAMBDA c : c.para = p /\ c.phase = phase)

\* the paragraph is inside its pass (between BeginParagraph and DictCheck)
InPass == pc \in {"rules", "caps", "british", "dict"}

\* C1: the ranges claimed and coloured for distinct matches of one paragraph
\* are pairwise disjoint, the claim set is exactly their union (no offset is
\* added twice), and every issue that names a span names a claimed range that
\* shares no offset with any other claimed range.
C1_ClaimedRangesDisjoint ==
    /\ \A k, l \in 1..Len(claims) :
          (k < l /\ claims[k].para = claims[l].para)
              => ClaimRange(claims[k]) \cap ClaimRange(claims[l]) = {}
    /\ InPass =>
          applied_indices = UNION {ClaimRange(claims[k]) : k \in ClaimsOf(para_idx)}
    /\ \A k \in 1..Len(results) :
          LET r == results[k]
          IN r.match # AllCapsSentence =>
                \E c \in ClaimsOf(r.paragraph_index) :
                    /\ claims[c].start = r.char_index - 1
                    /\ claims[c].end = claims[c].start + Len(r.match)
                    /\ claims[c].phase = r.phase

\* C1 witness: a rule candidate that shared some, not all, of its offsets with
\* the claim set was dropped whole.
C1_Witness ==
    /\ pc = "done"
    /\ \E r \in 1..Len(rules) :
          \E k \in 1..Len(RuleMatches(ParaText(doc[1]), rules[r].pattern)) :
              LET m == RuleMatches(ParaText(doc[1]), rules[r].pattern)[k]
                  taken == UNION {ClaimRange(claims[c]) : c \in ClaimsOf(1)}
              IN /\ \E c \in ClaimsOf(1) :
                       /\ claims[c].by # 0 /\ claims[c].by < r
                       /\ ClaimRange(claims[c]) \cap Range(m.start, m.end) # {}
                       /\ ~(Range(m.start, m.end) \subseteq ClaimRange(claims[c]))
                 /\ \A c \in ClaimsOf(1) :
                       ~(claims[c].start = m.start /\ claims[c].end = m.end)

\* C2: every claimed offset carries the colour of the match that claimed it.
C2_ClaimedOffsetsKeepColor ==
    \A k \in 1..Len(claims) :
        \A i \in ClaimRange(claims[k]) :
            ColorAt(doc[claims[k].para], i) = claims[k].color

\* C3: a character whose offset lies in no claimed range has the font colour
\* it had when the document was loaded.
C3_UnclaimedOffsetsUntouched ==
    \A p \in 1..Len(doc) :
        \A i \in 0..(Len(ParaText(orig[p])) - 1) :
            (\A k \in ClaimsOf(p) : i \notin ClaimRange(claims[k]))
                => ColorAt(doc[p], i) = ColorAt(orig[p], i)

\* C4: every paragraph keeps its runs, in order, with their texts; only the
\* colours of runs differ from the document as loaded.
C4_TextPreserved ==
    /\ Len(doc) = Len(orig)
    /\ \A p \in 1..Len(orig) :
          /\ Len(doc[p]) = Len(orig[p])
          /\ \A j \in 1..Len(orig[p]) : doc[p][j].text = orig[p][j].text
          /\ ParaText(doc[p]) = ParaText(orig[p])

\* C4 witness: the analysis of a paragraph of several runs has finished and
\* recoloured a run.
C4_Witness ==
    /\ pc = "done"
    /\ Len(doc[1]) >= 2
    /\ \E j \in 1..Len(doc[1]) : doc[1][j].color # orig[1][j].color

\* the occurrences of the pattern of rule r in paragraph p
Occurrences(p, r) == RuleMatches(ParaText(orig[p]), rules[r].pattern)

\* the whole words of paragraph p whose lowercase form is a regional-spelling key
RegionalWords(p) ==
    LET text == ParaText(orig[p])
    IN SelectSeq(SpellWords(text),
                 LAMBDA m : Lower(Slice(text, m.start, m.end)) \in BritishKeys)

\* the offsets paragraph p has claimed by the given checks
TakenBy(p, phases) ==
    UNION {ClaimRange(claims[k]) :
              k \in {c \in ClaimsOf(p) : claims[c].phase \in phases}}

\* C5: a regional-spelling word that an occurrence of a non-empty custom rule
\* pattern overlaps gets no issue and no colour from the regional spelling
\* check, whichever occurrence of the pattern it is.
C5_RuleBeatsRegionalSpelling ==
    \A p \in 1..Len(doc) : \A r \in 1..Len(rules) :
        rules[r].pattern # <<>> =>
            \A k \in 1..Len(Occurrences(p, r)) : \A w \in 1..Len(RegionalWords(p)) :
                LET m == Occurrences(p, r)[k]
                    word == RegionalWords(p)[w]
                IN Range(m.start, m.end) \cap Range(word.start, word.end) # {} =>
                      /\ \A i \in 1..Len(IssuesOf(p, "british")) :
                            IssuesOf(p, "british")[i].char_index # word.start + 1
                      /\ \A i \in 1..Len(LogOf(p, "british")) :
                            LogOf(p, "british")[i].start # word.start

\* C6: no "not recognized" issue is emitted for a span that an occurrence of a
\* non-empty rule pattern overlaps or that is a regional-spelling key.
C6_DictionaryNeverFlagsKnownTerms ==
    \A p \in 1..Len(doc) : \A i \in 1..Len(IssuesOf(p, "dict")) :
        LET d == IssuesOf(p, "dict")[i]
            span == Range(d.char_index - 1, d.char_index - 1 + Len(d.match))
        IN /\ Lower(d.match) \notin BritishKeys
           /\ \A r \in 1..Len(rules) :
                 rules[r].pattern # <<>> =>
                     \A k \in 1..Len(Occurrences(p, r)) :
                         Range(Occurrences(p, r)[k].start, Occurrences(p, r)[k].end)
                             \cap span = {}

\* the rule issues of paragraph p pair with the rule entries of the colouring
\* log: same order, same start, the matched text as it stands in the paragraph
RuleIssuesMatchLog(p) ==
    LET ri == IssuesOf(p, "rule")
        rc == LogOf(p, "rule")
    IN /\ Len(ri) = Len(rc)
       /\ \A k \in 1..Len(ri) :
             /\ ri[k].char_index = rc[k].start + 1
             /\ ri[k].match = Slice(ParaText(orig[p]), rc[k].start, rc[k].end)

\* at most one rule issue per pattern string in paragraph p
OneIssuePerPattern(p) ==
    LET rc == LogOf(p, "rule")
    IN \A k, l \in 1..Len(rc) :
          k # l => rules[rc[k].by].pattern # rules[rc[l].by].pattern

\* C7 as claimed: at most one issue per (pattern, paragraph), and the reported
\* occurrence is the leftmost occurrence of the pattern in the paragraph.
C7_ReportsLeftmostOccurrence ==
    \A p \in 1..Len(doc) :
        /\ RuleIssuesMatchLog(p)
        /\ OneIssuePerPattern(p)
        /\ \A k \in 1..Len(LogOf(p, "rule")) :
              LogOf(p, "rule")[k].start = Occurrences(p, LogOf(p, "rule")[k].by)[1].start

\* C7 as amended: at most one issue per (pattern, paragraph), and the reported
\* occurrence is the leftmost occurrence of the pattern that shares no offset
\* with the ranges claimed before it.
C7_ReportsLeftmostUnclaimedOccurrence ==
    \A p \in 1..Len(doc) :
        /\ RuleIssuesMatchLog(p)
        /\ OneIssuePerPattern(p)
        /\ \A k \in 1..Len(LogOf(p, "rule")) :
              LET rc == LogOf(p, "rule")
                  occ == Occurrences(p, rc[k].by)
                  before == UNION {ClaimRange(rc[j]) : j \in 1..(k - 1)}
              IN \E i \in 1..Len(occ) :
                    /\ occ[i].start = rc[k].start /\ occ[i].end = rc[k].end
                    /\ Range(occ[i].start, occ[i].end) \cap before = {}
                    /\ \A j \in 1..(i - 1) :
                          Range(occ[j].start, occ[j].end) \cap before # {}

\* C7 witness: the analysis has finished and a rule issue reports an occurrence
\* that is not the leftmost one, the leftmost one being partly or wholly claimed
\* by an earlier rule.
C7_Witness ==
    /\ pc = "done"
    /\ \E k \in 1..Len(LogOf(1, "rule")) :
          LogOf(1, "rule")[k].start > Occurrences(1, LogOf(1, "rule")[k].by)[1].start

\* C8: when the rule loop of a paragraph has ended, every occurrence of a
\* non-empty rule pattern that no earlier rule had claimed is in the claim set
\* with the rule's colour.
C8_EveryOccurrenceColored ==
    pc = "caps" =>
        \A r \in 1..Len(rules) :
            rules[r].pattern # <<>> =>
                \A k \in 1..Len(Occurrences(para_idx, r)) :
                    LET m == Occurrences(para_idx, r)[k]
                    IN \E c \in ClaimsOf(para_idx) :
                          \/ /\ claims[c].by # 0 /\ claims[c].by < r
                             /\ ClaimRange(claims[c]) \cap Range(m.start, m.end) # {}
                          \/ /\ claims[c].by = r
                             /\ claims[c].start = m.start /\ claims[c].end = m.end
                             /\ claims[c].color = SeverityColor(variant, rules[r].cat)

\* the alphabetic tokens of length >= 2 of a text, as texts
Tokens(text) ==
    [k \in 1..Len(AlphaWords(text)) |->
        Slice(text, AlphaWords(text)[k].start, AlphaWords(text)[k].end)]

\* C9: when the caps check of a non-blank paragraph has run: with f >= 0.6
\* (3 of 5 included) its issues are the one "ALL CAPS sentence" issue at
\* char_index 1; with f < 0.6 they are one caution issue per unclaimed fully
\* uppercase token of length >= 3, at the token's 1-based start offset.
C9_CapsDichotomy ==
    pc = "british" =>
        LET text == ParaText(orig[para_idx])
            toks == Tokens(text)
            nCaps == Cardinality({k \in 1..Len(toks) : StrIsUpper(toks[k])})
            ci == IssuesOf(para_idx, "caps")
            taken == TakenBy(para_idx, {"rule"})
            want == SelectSeq(AlphaWords(text),
                        LAMBDA m : /\ m.end - m.start >= 3
                                   /\ StrIsUpper(Slice(text, m.start, m.end))
                                   /\ Range(m.start, m.end) \cap taken = {})
        IN IF Len(toks) > 0 /\ 5 * nCaps >= 3 * Len(toks)
           THEN /\ Len(ci) = 1
                /\ ci[1].match = AllCapsSentence
                /\ ci[1].category = CautionKey(variant)
                /\ ci[1].char_index = 1
           ELSE /\ Len(ci) = Len(want)
                /\ \A k \in 1..Len(ci) :
                      /\ ci[k].match = Slice(text, want[k].start, want[k].end)
                      /\ ci[k].category = CautionKey(variant)
                      /\ ci[k].char_index = want[k].start + 1

\* C10: when the regional spelling check of a paragraph has run, its issues
\* are one caution issue per unclaimed whole word whose lowercase form is a
\* table key, with the word as cased in the paragraph and its 1-based offset.
C10_RegionalSpellingIssues ==
    pc = "dict" =>
        LET text == ParaText(orig[para_idx])
            bi == IssuesOf(para_idx, "british")
            taken == TakenBy(para_idx, {"rule", "caps"})
            want == SelectSeq(RegionalWords(para_idx),
                        LAMBDA m : Range(m.start, m.end) \cap taken = {})
        IN /\ Len(bi) = Len(want)
           /\ \A k \in 1..Len(bi) :
                 /\ bi[k].match = Slice(text, want[k].start, want[k].end)
                 /\ bi[k].category = CautionKey(variant)
                 /\ bi[k].char_index = want[k].start + 1

\* position of a check in the pass over a paragraph
PhaseRank(phase) ==
    CASE phase = "rule" -> 1
      [] phase = "caps" -> 2
      [] phase = "british" -> 3
      [] phase = "dict" -> 4

\* C12 as stated: the issue list is sorted by paragraph index, then by phase
\* (rule, capitalisation, regional spelling, dictionary), then within one
\* phase by start offset from left to right.
C12_IssuesSortedByOffsetInPhase ==
    \A i, j \in 1..Len(results) :
        i < j =>
            LET a == results[i]
                b == results[j]
            IN \/ a.paragraph_index < b.paragraph_index
               \/ /\ a.paragraph_index = b.paragraph_index
                  /\ PhaseRank(a.phase) < PhaseRank(b.phase)
               \/ /\ a.paragraph_index = b.paragraph_index
                  /\ a.phase = b.phase
                  /\ a.char_index <= b.char_index

\* C12: the issue list is sorted by paragraph index, then by phase; the rule
\* issues of a paragraph are in rule-list order, one per claimed range of the
\* rule loop, and the issues of each built-in check are in strictly
\* increasing start offset.
C12_IssuesSortedByRuleThenOffset ==
    /\ \A i, j \in 1..Len(results) :
          i < j =>
              LET a == results[i]
                  b == results[j]
              IN \/ a.paragraph_index < b.paragraph_index
                 \/ /\ a.paragraph_index = b.paragraph_index
                    /\ PhaseRank(a.phase) < PhaseRank(b.phase)
                 \/ /\ a.paragraph_index = b.paragraph_index
                    /\ a.phase = b.phase
                    /\ a.phase # "rule" => a.char_index < b.char_index
    /\ \A p \in 1..Len(doc) :
          LET ri == IssuesOf(p, "rule")
              rl == LogOf(p, "rule")
          IN /\ Len(ri) = Len(rl)
             /\ \A k \in 1..Len(ri) : ri[k].char_index = rl[k].start + 1
             /\ \A k, l \in 1..Len(rl) : k < l => rl[k].by < rl[l].by

\* C12 witness: a later rule of the list matched to the left of an earlier
\* one in the same paragraph, and the dictionary check reported a word.
C12_Witness ==
    /\ pc = "done"
    /\ \E i, j \in 1..Len(results) :
          /\ i < j
          /\ results[i].paragraph_index = results[j].paragraph_index
          /\ results[i].phase = "rule" /\ results[j].phase = "rule"
          /\ results[i].char_index > results[j].char_index
    /\ Len(IssuesOf(1, "dict")) >= 1
    /\ \A r \in 1..Len(rules) : rules[r].pattern # <<>>

\* C13: a rule whose pattern is empty is skipped without effect in every
\* engine variant: it yields no issue, colours nothing and claims nothing.
C13_EmptyPatternSkipped ==
    /\ \A k \in 1..Len(claims) :
          claims[k].by # 0 => rules[claims[k].by].pattern # <<>>
    /\ \A k \in 1..Len(results) :
          results[k].phase = "rule" => results[k].match # <<>>

\* the colour the category of a rule stands for: red for a rule (error),
\* orange for a caution (warning)
CategoryColor(cat) ==
    IF cat \in {"error", "style_guide_rule"} THEN "red" ELSE "orange"

\* C14: every range the rule loop colours gets the colour of the category
\* its rule was stored under: red for a rule or error, orange for a caution
\* or warning.
C14_RuleColorFollowsCategory ==
    \A k \in 1..Len(claims) :
        claims[k].phase = "rule"
            => claims[k].color = CategoryColor(rules[claims[k].by].cat)

----------------------------------------------------------------------------
(* The rule matcher alone:                                                 *)
(* re.finditer(rf"\b{re.escape(pattern)}\b", text, re.IGNORECASE).         *)

MaxTextLen == 4

MatchAlphabet == {"z", "Z", "q", ".", " ", "_"}
MatchTexts == UNION {[1..n -> MatchAlphabet] : n \in 0..MaxTextLen}
\* literal patterns: a word, a pattern ending and one beginning with a
\* non-word character
MatchPatterns == {<<"z">>, <<"z", "q">>, <<"z", ".">>, <<".", "z">>}

InitMatch ==
    /\ m_text \in MatchTexts
    /\ m_pattern \in MatchPatterns
    /\ m_found = <<>>
    /\ m_pc = "ready"
    /\ variant = "run"
    /\ rules = <<>>
    /\ doc = <<>>
    /\ orig = <<>>
    /\ pc = "done"
    /\ para_idx = 1
    /\ rule_idx = 1
    /\ applied_indices = {}
    /\ reported = {}
    /\ results = <<>>
    /\ claims = <<>>
    /\ EditorIdle

\* "for match in re.finditer(...)": the candidates of one rule in one text
FindMatches ==
    /\ m_pc = "ready"
    /\ m_found' = RuleMatches(m_text, m_pattern)
    /\ m_pc' = "done"
    /\ UNCHANGED <<m_text, m_pattern, engineVars, editorVars>>

NextMatch == FindMatches

SpecMatch == InitMatch /\ [][NextMatch]_vars

\* a letter or a digit
IsAlnum(c) == IsAlpha(c) \/ c \in DigitChars

\* the occurrences of the pattern in the text, compared without case, with a
\* non-alphanumeric character or the edge of the text on both sides
BoundedOccurrences(text, pattern) ==
    {r \in [start : 0..Len(text), end : 0..Len(text)] :
        /\ r.end = r.start + Len(pattern)
        /\ Lower(Slice(text, r.start, r.end)) = Lower(pattern)
        /\ r.start = 0 \/ ~IsAlnum(text[r.start])
        /\ r.end = Len(text) \/ ~IsAlnum(text[r.end + 1])}

FoundSet == {m_found[k] : k \in 1..Len(m_found)}

\* C11: the matcher yields a candidate at [start, end) exactly when the text
\* there equals the pattern without regard to case and the occurrence has a
\* non-alphanumeric character or the edge of the text on both sides, for
\* every literal pattern.
C11_CandidatesAreBoundedOccurrences ==
    m_pc = "done" => FoundSet = BoundedOccurrences(m_text, m_pattern)

----------------------------------------------------------------------------
(* The rule editor: the script of src/add_rules.py (the Rule Editor tab of *)
(* src/textile_app.py is the same code).  One action is one run of the     *)
(* script with the interaction that triggered it.  Rule records carry an   *)
(* id that the code does not store; it names the rule across edits.        *)

MaxAdds == 1

Sections == <<"style_guide_rule", "style_guide_caution">>
OldKey(section) ==
    IF section = "style_guide_rule" THEN "terminology" ELSE "flag_only"
RecognizedKeys ==
    {"terminology", "flag_only", "style_guide_rule", "style_guide_caution"}

\* str.strip()
RECURSIVE LStrip(_)
LStrip(s) ==
    IF s # <<>> /\ Head(s) \in SpaceChars THEN LStrip(Tail(s)) ELSE s
RECURSIVE RStrip(_)
RStrip(s) ==
    IF s # <<>> /\ s[Len(s)] \in SpaceChars
    THEN RStrip(SubSeq(s, 1, Len(s) - 1))
    ELSE s
Strip(s) == RStrip(LStrip(s))

\* None, which no text field produces
NoneValue == <<"None">>

\* the record the Add and Update handlers build from the form fields
FormRecord(match_text, replacement, message, id) ==
    [match |-> Strip(match_text),
     replace_with |-> IF replacement # <<>> THEN Strip(replacement) ELSE NoneValue,
     message |-> Strip(message),
     id |-> id]

\* load_rules: the two sections, each from the old key when the file has it,
\* else from the new key
LoadRules(file) ==
    IF ~file.exists
    THEN [k \in {Sections[1], Sections[2]} |-> <<>>]
    ELSE [k \in {Sections[1], Sections[2]} |->
             IF OldKey(k) \in DOMAIN file.data THEN file.data[OldKey(k)]
             ELSE IF k \in DOMAIN file.data THEN file.data[k]
             ELSE <<>>]

\* save_rules, and the default file load_rules writes when there is none
SaveRules(rules_data) == [exists |-> TRUE, data |-> rules_data]

\* the file after load_rules has run
FileAfterLoad(file) == IF file.exists THEN file ELSE SaveRules(LoadRules(file))

\* list.insert(0, x), list.pop(idx) and list[idx] = x with 0-based idx
InsertFirst(list, x) == <<x>> \o list
Pop(list, idx) ==
    [k \in 1..(Len(list) - 1) |-> IF k <= idx THEN list[k] ELSE list[k + 1]]
SetAt(list, idx, x) == [list EXCEPT ![idx + 1] = x]

\* the "EDIT RULE" block of a run that handles no form: an edit_rule whose
\* index is past the end of its section is deleted
EditRuleAfterRun(rules_data, er) ==
    IF er # <<>> /\ ~(er[2] < Len(rules_data[er[1]])) THEN <<>> ELSE er

\* what the user types into the Match, Replacement and Message fields
Submissions ==
    { [match_text |-> <<"a">>,      replacement |-> <<>>,    message |-> <<"m">>],
      [match_text |-> <<" ", "a">>, replacement |-> <<" ">>, message |-> <<"m", " ">>],
      [match_text |-> <<" ">>,      replacement |-> <<>>,    message |-> <<"m">>],
      [match_text |-> <<>>,         replacement |-> <<>>,    message |-> <<"m">>],
      [match_text |-> <<"a">>,      replacement |-> <<"r">>, message |-> <<>>] }

\* the rules of the store the editor starts from: match and message are set
SeedRules ==
    <<FormRecord(<<"a">>, <<>>, <<"m">>, 1), FormRecord(<<"b">>, <<"r">>, <<"m">>, 2)>>

\* rules.json as the editor may find it: absent, in the current key scheme,
\* in the old key scheme, or with the old and the current key of one section
InitFiles ==
    { MissingFile,
      SaveRules([k \in {"style_guide_rule", "style_guide_caution"} |->
                    IF k = "style_guide_rule" THEN <<SeedRules[1]>> ELSE <<SeedRules[2]>>]),
      SaveRules([k \in {"style_guide_rule", "style_guide_caution"} |->
                    IF k = "style_guide_rule" THEN SeedRules ELSE <<>>]),
      SaveRules([k \in {"terminology", "flag_only"} |->
                    IF k = "terminology" THEN <<SeedRules[1]>> ELSE <<SeedRules[2]>>]),
      SaveRules([k \in {"terminology", "style_guide_rule", "style_guide_caution"} |->
                    IF k = "terminology" THEN <<SeedRules[1]>>
                    ELSE IF k = "style_guide_rule" THEN <<SeedRules[2]>>
                    ELSE <<>>]) }

InitEditor ==
    /\ rules_file \in InitFiles
    /\ edit_rule = <<>>
    /\ edit_target = 0
    /\ next_id = Len(SeedRules) + 1
    /\ last_op = "start"
    /\ variant = "app"
    /\ rules = <<>>
    /\ doc = <<>>
    /\ orig = <<>>
    /\ pc = "done"
    /\ para_idx = 1
    /\ rule_idx = 1
    /\ applied_indices = {}
    /\ reported = {}
    /\ results = <<>>
    /\ claims = <<>>
    /\ MatchIdle

\* the end of a script run: the file, the edit state left in the session and
\* the interaction handled
Finish(file, er, target, op) ==
    /\ rules_file' = file
    /\ edit_rule' = er
    /\ edit_target' = IF er = <<>> THEN 0 ELSE target
    /\ last_op' = op
    /\ UNCHANGED <<engineVars, matchVars>>

\* a run with no interaction (the page is reloaded)
Rerun ==
    LET rules_data == LoadRules(rules_file)
    IN /\ Finish(FileAfterLoad(rules_file),
                 EditRuleAfterRun(rules_data, edit_rule), edit_target, "rerun")
       /\ UNCHANGED next_id

\* "Add Rule" submitted
AddRule ==
    \E section \in {"style_guide_rule", "style_guide_caution"}, sub \in Submissions :
        LET rules_data == LoadRules(rules_file)
            added == [rules_data EXCEPT ![section] =
                         InsertFirst(@, FormRecord(sub.match_text, sub.replacement,
                                                   sub.message, next_id))]
        IN IF sub.match_text = <<>> \/ sub.message = <<>>
           THEN /\ Finish(FileAfterLoad(rules_file),
                          EditRuleAfterRun(rules_data, edit_rule), edit_target,
                          "add_rejected")
                /\ UNCHANGED next_id
           ELSE /\ next_id <= Len(SeedRules) + MaxAdds
                /\ Finish(SaveRules(added), EditRuleAfterRun(added, edit_rule),
                          edit_target, "add")
                /\ next_id' = next_id + 1

\* the "Edit" button of a displayed rule
PressEdit ==
    \E section \in {"style_guide_rule", "style_guide_caution"} :
        LET rules_data == LoadRules(rules_file)
        IN \E idx \in 0..(Len(rules_data[section]) - 1) :
              /\ Finish(FileAfterLoad(rules_file), <<section, idx>>,
                        rules_data[section][idx + 1].id, "edit")
              /\ UNCHANGED next_id

\* the "Delete" button of a displayed rule
PressDelete ==
    \E section \in {"style_guide_rule", "style_guide_caution"} :
        LET rules_data == LoadRules(rules_file)
        IN \E idx \in 0..(Len(rules_data[section]) - 1) :
              /\ Finish(SaveRules([rules_data EXCEPT ![section] = Pop(@, idx)]),
                        <<>>, 0, "delete")
              /\ UNCHANGED next_id

\* "Update Rule" submitted in the edit form
UpdateRule ==
    \E sub \in Submissions :
        LET rules_data == LoadRules(rules_file)
            section == edit_rule[1]
            idx == edit_rule[2]
        IN /\ edit_rule # <<>>
           /\ idx < Len(rules_data[section])
           /\ Finish(SaveRules([rules_data EXCEPT ![section] =
                         SetAt(@, idx,
                               FormRecord(sub.match_text, sub.replacement,
                                          sub.message, rules_data[section][idx + 1].id))]),
                     <<>>, 0, "update")
           /\ UNCHANGED next_id

NextEditor ==
    \/ Rerun
    \/ AddRule
    \/ PressEdit
    \/ PressDelete
    \/ UpdateRule

SpecEditor == InitEditor /\ [][NextEditor]_vars

\* the rules stored in the file under a recognized key
StoredRules(file) ==
    UNION {{file.data[k][i] : i \in 1..Len(file.data[k])} :
              k \in RecognizedKeys \cap DOMAIN file.data}

StoredIds(file) == {r.id : r \in StoredRules(file)}

\* C15: starting from a store whose rules all have a match and a message,
\* after any sequence of Add Rule, Update Rule and Delete every stored rule
\* has a non-empty match and a non-empty message.
C15_StoredRulesHaveMatchAndMessage ==
    \A r \in StoredRules(rules_file) : r.match # <<>> /\ r.message # <<>>

\* C16: while an edit is pending, the stored (section, index) names the rule
\* Edit was pressed on, whatever Add Rule and Delete did in between, so that
\* Update Rule overwrites that rule and no other.
C16_EditTargetStable ==
    edit_rule # <<>> =>
        LET rules_data == LoadRules(rules_file)
            section == edit_rule[1]
            idx == edit_rule[2]
        IN /\ idx < Len(rules_data[section])
           /\ rules_data[section][idx + 1].id = edit_target

\* C17: a script run that loads the store and saves it drops no rule stored
\* under a recognized key, also when the file holds the old and the current
\* key of one section; only Delete removes a rule.
C17_LoadSaveKeepsEveryRule ==
    [][last_op' # "delete" => StoredIds(rules_file) \subseteq StoredIds(rules_file')]_vars

====
